---------------------------- MODULE Spec2Model ----------------------------
(***************************************************************************)
(* Jogger load on bridges (src/main.cpp): the load factor, the closed-form *)
(* response y/dy/ddy, the clamped Newton iteration newtonsMethod, and the  *)
(* flow of main (argument flags, prompts, plot table, peak search).         *)
(*                                                                         *)
(* Numbers.  The program computes in IEEE double.  Here a double is kept   *)
(* at reduced width: a binary fixed-point number with FracBits fraction    *)
(* bits and IntBits integer bits, held as an integer count of units of     *)
(* 1/Q, every operation rounded to nearest (ties to even), with the IEEE   *)
(* special values: a result above MaxFinite overflows to +-Inf, 0/0,       *)
(* Inf-Inf, 0*Inf and Inf/Inf give NaN, and every ordered comparison with  *)
(* NaN is false.  Zero carries no sign; where the sign of a zero divisor   *)
(* decides the result (x/0) both signs are outcomes of the step.           *)
(* A decimal literal of the source (1.9, 0.75) is the nearest value of the  *)
(* format, as the compiler makes it.                                       *)
(***************************************************************************)
EXTENDS Integers, Sequences, FiniteSets, TLC

(* ------------------------------ bounds -------------------------------- *)
FracBits == 13
IntBits == 12

Q == 2^FracBits
One == Q
MaxFinite == 2^(IntBits + FracBits)
PosInf == MaxFinite + 1
NegInf == -(MaxFinite + 1)
NaN == MaxFinite + 2

(* ------------------------- double: the values -------------------------- *)
IsNaN(x) == x = NaN
IsInf(x) == x = PosInf \/ x = NegInf
IsFinite(x) == x >= -MaxFinite /\ x <= MaxFinite
Abs(x) == IF x < 0 THEN -x ELSE x
Sgn(x) == IF x < 0 THEN -1 ELSE 1

\* n/d for n >= 0, d > 0, rounded to nearest, ties to even
RoundDiv(n, d) ==
  IF 2 * (n % d) > d \/ (2 * (n % d) = d /\ (n \div d) % 2 = 1)
    THEN (n \div d) + 1
    ELSE n \div d

\* sign s and magnitude m (units) as a double: overflow gives an infinity
Pack(s, m) ==
  IF m > MaxFinite THEN (IF s < 0 THEN NegInf ELSE PosInf) ELSE s * m

\* a decimal literal n/d (n >= 0) as the nearest double
Dec(n, d) == RoundDiv(n * Q, d)

(* ----------------------- double: the operations ------------------------ *)
\* ordered comparisons: false as soon as an operand is NaN
Lt(x, y) == ~IsNaN(x) /\ ~IsNaN(y) /\ x < y
Gt(x, y) == Lt(y, x)
Le(x, y) == ~IsNaN(x) /\ ~IsNaN(y) /\ x <= y
Ge(x, y) == Le(y, x)

Neg(x) ==
  IF IsNaN(x) THEN NaN
  ELSE IF x = PosInf THEN NegInf
  ELSE IF x = NegInf THEN PosInf
  ELSE -x

Add(x, y) ==
  IF IsNaN(x) \/ IsNaN(y) THEN NaN
  ELSE IF IsInf(x) /\ IsInf(y) THEN (IF x = y THEN x ELSE NaN)
  ELSE IF IsInf(x) THEN x
  ELSE IF IsInf(y) THEN y
  ELSE Pack(Sgn(x + y), Abs(x + y))

Sub(x, y) == Add(x, Neg(y))

\* q + r/d (0 <= r < d) rounded to nearest, ties to even
RoundEven(q, r, d) ==
  IF 2 * r > d \/ (2 * r = d /\ q % 2 = 1) THEN q + 1 ELSE q

\* |x|*|y| in units from the integer and fraction parts of x and y;
\* MaxFinite + 1 on overflow
MulParts(xh, xl, yh, yl) ==
  IF xh * yh > 2^IntBits THEN MaxFinite + 1
  ELSE RoundEven(xh * yh * Q + xh * yl + xl * yh + ((xl * yl) \div Q),
                 (xl * yl) % Q, Q)

MulMag(x, y) == MulParts(x \div Q, x % Q, y \div Q, y % Q)

Mul(x, y) ==
  IF IsNaN(x) \/ IsNaN(y) THEN NaN
  ELSE IF IsInf(x) \/ IsInf(y)
    THEN (IF x = 0 \/ y = 0 THEN NaN
          ELSE IF Sgn(x) * Sgn(y) < 0 THEN NegInf ELSE PosInf)
  ELSE Pack(Sgn(x) * Sgn(y), MulMag(Abs(x), Abs(y)))

\* the fraction bits of r/y (0 <= r < y) by long division: <<bits, remainder>>
RECURSIVE FracDiv(_, _, _, _)
FracDiv(r, y, k, acc) ==
  IF k = 0 THEN <<acc, r>>
  ELSE IF 2 * r >= y THEN FracDiv(2 * r - y, y, k - 1, 2 * acc + 1)
  ELSE FracDiv(2 * r, y, k - 1, 2 * acc)

\* |x|/|y| in units for finite magnitudes, y > 0, MaxFinite + 1 on overflow
DivParts(ip, fr, y) ==
  IF ip > 2^IntBits THEN MaxFinite + 1
  ELSE RoundEven(ip * Q + fr[1], fr[2], y)

DivMag(x, y) == DivParts(x \div y, FracDiv(x % y, y, FracBits, 0), y)

\* x/y; a zero divisor counts as +0 here
Div(x, y) ==
  IF IsNaN(x) \/ IsNaN(y) THEN NaN
  ELSE IF IsInf(x) /\ IsInf(y) THEN NaN
  ELSE IF IsInf(y) THEN 0
  ELSE IF IsInf(x) THEN (IF Sgn(x) * Sgn(y) < 0 THEN NegInf ELSE PosInf)
  ELSE IF y = 0 THEN (IF x = 0 THEN NaN ELSE IF x < 0 THEN NegInf ELSE PosInf)
  ELSE Pack(Sgn(x) * Sgn(y), DivMag(Abs(x), Abs(y)))

\* x/k for a small positive integer k (a series coefficient)
DivInt(x, k) == Sgn(x) * RoundDiv(Abs(x), k)

(* --------------------------- <cmath> ----------------------------------- *)
M_PI == Dec(31416, 10000)
TwoPi == 2 * M_PI
HalfPi == M_PI \div 2

\* a value of sin or cos on the first quadrant, kept inside [0, 1]
Unit01(s) == IF s > One THEN One ELSE IF s < 0 THEN 0 ELSE s

\* One - x2*h/n: one Horner step of the sine and cosine series
Horner(x2, h, n) == One - DivInt(Mul(x2, h), n)

\* sin on [0, pi/2]: x(1 - x^2/6 (1 - x^2/20 (1 - x^2/42 (1 - x^2/72))))
SinSeries(x, x2) ==
  Unit01(Mul(x, Horner(x2, Horner(x2, Horner(x2, Horner(x2, One, 72), 42),
                                  20), 6)))

SinQ(x) == SinSeries(x, Mul(x, x))

\* cos on [0, pi/2]: 1 - x^2/2 (1 - x^2/12 (1 - x^2/30 (1 - x^2/56 (1 - x^2/90))))
CosSeries(x2) ==
  Unit01(Horner(x2, Horner(x2, Horner(x2, Horner(x2, Horner(x2, One, 90), 56),
                                      30), 12), 2))

CosQ(x) == CosSeries(Mul(x, x))

\* an angle m in [0, 2 pi) folded into the first quadrant
Fold(m) ==
  IF m <= HalfPi THEN m
  ELSE IF m <= M_PI THEN M_PI - m
  ELSE IF m <= M_PI + HalfPi THEN m - M_PI
  ELSE TwoPi - m

Sin(x) ==
  IF ~IsFinite(x) THEN NaN
  ELSE Sgn(x) * (IF Abs(x) % TwoPi <= M_PI THEN 1 ELSE -1)
              * SinQ(Fold(Abs(x) % TwoPi))

Cos(x) ==
  IF ~IsFinite(x) THEN NaN
  ELSE (IF Abs(x) % TwoPi <= HalfPi \/ Abs(x) % TwoPi > M_PI + HalfPi
          THEN 1 ELSE -1)
       * CosQ(Fold(Abs(x) % TwoPi))

\* e^r for 0 <= r < 1: 1 + r(1 + r/2 (1 + r/3 ( ... (1 + r/9))))
RECURSIVE ExpSeries(_, _)
ExpSeries(r, k) ==
  IF k > 9 THEN One ELSE One + DivInt(Mul(r, ExpSeries(r, k + 1)), k)

\* v * e^n
RECURSIVE ExpScale(_, _)
ExpScale(v, n) ==
  IF n = 0 \/ ~IsFinite(v) THEN v ELSE ExpScale(Mul(v, Dec(27183, 10000)), n - 1)

ExpPos(x) ==
  IF x \div Q > IntBits THEN PosInf ELSE ExpScale(ExpSeries(x % Q, 1), x \div Q)

Exp(x) ==
  IF IsNaN(x) THEN NaN
  ELSE IF x = PosInf THEN PosInf
  ELSE IF x = NegInf THEN 0
  ELSE IF x >= 0 THEN ExpPos(x)
  ELSE Div(One, ExpPos(-x))

(* ------------------------- the response model -------------------------- *)
power2(x) == Mul(x, x)
power3(x) == Mul(Mul(x, x), x)

ddy(t, a, T) ==
  Div(Add(Sub(Mul(Mul(power3(a), T), Cos(Mul(a, t))),
              Mul(power2(a), Sin(Mul(a, t)))),
          Div(Mul(a, Exp(Div(Neg(t), T))), T)),
      Add(power2(Mul(a, T)), One))

dy(t, a, T) ==
  Div(Sub(Add(Mul(Mul(power2(a), T), Sin(Mul(a, t))),
              Mul(a, Cos(Mul(a, t)))),
          Mul(a, Exp(Div(Neg(t), T)))),
      Add(power2(Mul(a, T)), One))

y(t, a, T) ==
  Div(Add(Add(Mul(Mul(Neg(a), T), Cos(Mul(a, t))),
              Mul(Mul(a, T), Exp(Div(Neg(t), T)))),
          Sin(Mul(a, t))),
      Add(power2(Mul(a, T)), One))

(* ----------------------------- newtonsMethod ---------------------------- *)
NumIter == 6

\* the two clamps of one iteration, in the order the code applies them
ClampLowBoundary(r, tmax) ==
  LET hi == Gt(r, tmax)
      t1 == IF hi THEN tmax ELSE r
      lo == Lt(t1, 0)
  IN  [t |-> IF lo THEN 0 ELSE t1, hi |-> hi, lo |-> lo]

Clamp(r, tmax) ==
  LET hi == Gt(r, tmax)
      t1 == IF hi THEN tmax ELSE r
      lo == Lt(t1, 0)
  IN  [t |-> IF lo THEN Mul(Dec(45, 100), tmax) ELSE t1, hi |-> hi, lo |-> lo]

\* B = dy(t,a,T) - A*t
InterceptPlus(d, A, t) == Add(d, Mul(A, t))

Intercept(d, A, t) == Sub(d, Mul(A, t))

\* the values -B/A can take: a zero A is +0 or -0, so a nonzero B gives
\* either infinity
StepOutcomes(B, A) ==
  IF A = 0 /\ ~IsNaN(B) /\ B # 0 THEN {PosInf, NegInf} ELSE {Div(Neg(B), A)}

\* the loop condition i < 6
LoopShort(i) == i < NumIter - 1

LoopContinues(i) == i < NumIter

(* --------------------------- joggerLoadFactor --------------------------- *)
\* f < 2.7 in place of f <= 2.7
LoadFactorOpenPlateau(f) ==
  IF Le(f, Dec(19, 10)) \/ Ge(f, Dec(35, 10)) THEN 0
  ELSE IF Lt(f, Dec(22, 10))
    THEN Mul(Sub(f, Dec(19, 10)), Sub(Dec(22, 10), Dec(19, 10)))
  ELSE IF Lt(f, Dec(27, 10)) THEN One
  ELSE Mul(Neg(Sub(f, Dec(35, 10))), Sub(Dec(35, 10), Dec(27, 10)))

\* the falling ramp without its minus sign
LoadFactorSignSlip(f) ==
  IF Le(f, Dec(19, 10)) \/ Ge(f, Dec(35, 10)) THEN 0
  ELSE IF Lt(f, Dec(22, 10))
    THEN Mul(Sub(f, Dec(19, 10)), Sub(Dec(22, 10), Dec(19, 10)))
  ELSE IF Le(f, Dec(27, 10)) THEN One
  ELSE Mul(Sub(f, Dec(35, 10)), Sub(Dec(35, 10), Dec(27, 10)))

\* the ramps divided by the width of their band: 0 to 1 and 1 to 0
LoadFactorNormalised(f) ==
  IF Le(f, Dec(19, 10)) \/ Ge(f, Dec(35, 10)) THEN 0
  ELSE IF Lt(f, Dec(22, 10))
    THEN Div(Sub(f, Dec(19, 10)), Sub(Dec(22, 10), Dec(19, 10)))
  ELSE IF Le(f, Dec(27, 10)) THEN One
  ELSE Div(Neg(Sub(f, Dec(35, 10))), Sub(Dec(35, 10), Dec(27, 10)))

joggerLoadFactor(f) ==
  IF Le(f, Dec(19, 10)) \/ Ge(f, Dec(35, 10)) THEN 0
  ELSE IF Lt(f, Dec(22, 10))
    THEN Mul(Sub(f, Dec(19, 10)), Sub(Dec(22, 10), Dec(19, 10)))
  ELSE IF Le(f, Dec(27, 10)) THEN One
  ELSE Mul(Neg(Sub(f, Dec(35, 10))), Sub(Dec(35, 10), Dec(27, 10)))

(* ------------------------------ processArg ------------------------------ *)
\* a C string is the sequence of its characters; the terminator reads as NUL
NUL == ""
CharAt(s, n) == IF n < Len(s) THEN s[n + 1] ELSE NUL

processArgPrefix(arg, fl) ==
  IF CharAt(arg, 0) = "-"
    THEN IF CharAt(arg, 1) = "p"
           THEN [fl EXCEPT !.plot = TRUE]
         ELSE IF CharAt(arg, 1) = "v"
           THEN [fl EXCEPT !.overrideVelocity = TRUE]
         ELSE fl
  ELSE fl

processArg(arg, fl) ==
  IF CharAt(arg, 0) = "-"
    THEN IF CharAt(arg, 1) = "p" /\ CharAt(arg, 2) = NUL
           THEN [fl EXCEPT !.plot = TRUE]
         ELSE IF CharAt(arg, 1) = "v" /\ CharAt(arg, 2) = NUL
           THEN [fl EXCEPT !.overrideVelocity = TRUE]
         ELSE fl
  ELSE fl

(* --------------------------------- main --------------------------------- *)
NumSamples == 100
DefaultVelocity == 3
FloatDrop == 4

FromInt(n) == n * Q

\* a double narrowed to float: FloatDrop fewer fraction bits
ToFloat(x) ==
  IF ~IsFinite(x) THEN x
  ELSE Pack(Sgn(x), RoundDiv(Abs(x), 2^FloatDrop) * 2^FloatDrop)

\* float t = i*20.0/100
SampleTimeTo20(i) ==
  ToFloat(Div(Mul(FromInt(i), FromInt(20)), FromInt(NumSamples - 1)))

SampleTime(i) == ToFloat(Div(Mul(FromInt(i), FromInt(20)), FromInt(100)))

\* the velocity that enters a = M_PI * v / L
VelocityAlwaysRead(override, dflt, typed) == typed

Velocity(override, dflt, typed) == IF override THEN typed ELSE dflt

(* ------------------------------- the state ------------------------------ *)
VARIABLES
  pc,                \* where the program is
  argv,              \* the command line, argv[1] the program name (C's argv[0])
  index,             \* main's loop variable over argv (C index)
  flags,             \* the globals plot and overrideVelocity
  stdin,             \* what the user will type: f, L, v, z
  f, L, v, z,        \* main's locals
  a, T,              \* main's a and T, the arguments of y and newtonsMethod
  load,              \* the printed jogger load, joggerLoadFactor(f)*1250
  i,                 \* the plot loop's variable
  out,               \* the (t, y) pairs handed to cout so far
  t_max, t, k,       \* newtonsMethod's locals (k is its loop variable i)
  step,              \* the last iteration: t before, A, dy, B, -B/A, clamps
  hist,              \* t after each iteration so far
  tq,                \* the time argument of a single call of y
  res                \* the value returned by the call under study

vars == <<pc, argv, index, flags, stdin, f, L, v, z, a, T, load, i, out,
          t_max, t, k, step, hist, tq, res>>

NoFlags == [plot |-> FALSE, overrideVelocity |-> FALSE]
NoStep == [prev |-> 0, A |-> 0, dy |-> 0, B |-> 0, raw |-> 0,
           hi |-> FALSE, lo |-> FALSE]
NoStdin == [f |-> Dec(28, 10), L |-> FromInt(10), v |-> FromInt(3), z |-> Dec(6, 1000)]

\* the locals of main as initialised at lines 131-134, nothing run yet
Fresh ==
  /\ index = 1
  /\ flags = NoFlags
  /\ f = Dec(28, 10) /\ L = FromInt(10) /\ v = FromInt(DefaultVelocity)
  /\ z = Dec(6, 1000)
  /\ a = 0 /\ T = 0 /\ load = 0
  /\ i = 0 /\ out = <<>>
  /\ t_max = 0 /\ t = 0 /\ k = 0 /\ step = NoStep /\ hist = <<>>
  /\ tq = 0 /\ res = 0

(* ------------------------------- actions -------------------------------- *)
\* main, lines 136-138: one turn of the loop over the arguments
ProcessArgStep ==
  /\ pc = "args"
  /\ index < Len(argv)
  /\ flags' = processArg(argv[index + 1], flags)
  /\ index' = index + 1
  /\ UNCHANGED <<pc, argv, stdin, f, L, v, z, a, T, load, i, out,
                 t_max, t, k, step, hist, tq, res>>

\* main, lines 140-159: the prompts, then a and T
ReadInputs ==
  /\ pc = "args"
  /\ ~(index < Len(argv))
  /\ f' = stdin.f
  /\ load' = Mul(joggerLoadFactor(stdin.f), FromInt(1250))
  /\ L' = stdin.L
  /\ v' = Velocity(flags.overrideVelocity, v, stdin.v)
  /\ z' = stdin.z
  /\ a' = Div(Mul(M_PI, v'), L')
  /\ T' = Div(One, Mul(Mul(Mul(FromInt(2), M_PI), f'), z'))
  /\ pc' = "plot"
  /\ UNCHANGED <<argv, index, flags, stdin, i, out,
                 t_max, t, k, step, hist, tq, res>>

\* main, lines 161-167: one line of the table
PlotSample ==
  /\ pc = "plot"
  /\ flags.plot
  /\ i < NumSamples
  /\ out' = Append(out, <<SampleTime(i), y(SampleTime(i), a, T)>>)
  /\ i' = i + 1
  /\ UNCHANGED <<pc, argv, index, flags, stdin, f, L, v, z, a, T, load,
                 t_max, t, k, step, hist, tq, res>>

\* main, line 161 (no plot) or the end of the loop at line 162
PlotDone ==
  /\ pc = "plot"
  /\ ~flags.plot \/ ~(i < NumSamples)
  /\ pc' = "newton"
  /\ UNCHANGED <<argv, index, flags, stdin, f, L, v, z, a, T, load, i, out,
                 t_max, t, k, step, hist, tq, res>>

\* newtonsMethod, lines 85-86
NewtonEnter ==
  /\ pc = "newton"
  /\ t_max' = Div(M_PI, a)
  /\ t' = Mul(t_max', Dec(75, 100))
  /\ k' = 0
  /\ step' = NoStep
  /\ hist' = <<>>
  /\ pc' = "loop"
  /\ UNCHANGED <<argv, index, flags, stdin, f, L, v, z, a, T, load, i, out,
                 tq, res>>

\* newtonsMethod, lines 90-97: one iteration
NewtonIter ==
  /\ pc = "loop"
  /\ LoopContinues(k)
  /\ \E A \in {ddy(t, a, T)}, d \in {dy(t, a, T)} :
       \E r \in StepOutcomes(Intercept(d, A, t), A) :
         /\ t' = Clamp(r, t_max).t
         /\ step' = [prev |-> t, A |-> A, dy |-> d,
                     B |-> Intercept(d, A, t), raw |-> r,
                     hi |-> Clamp(r, t_max).hi, lo |-> Clamp(r, t_max).lo]
         /\ hist' = Append(hist, Clamp(r, t_max).t)
  /\ k' = k + 1
  /\ UNCHANGED <<pc, argv, index, flags, stdin, f, L, v, z, a, T, load, i,
                 out, t_max, tq, res>>

\* newtonsMethod, line 102, and main, lines 169-173
NewtonReturn ==
  /\ pc = "loop"
  /\ ~LoopContinues(k)
  /\ tq' = t
  /\ res' = ToFloat(y(t, a, T))
  /\ pc' = "done"
  /\ UNCHANGED <<argv, index, flags, stdin, f, L, v, z, a, T, load, i, out,
                 t_max, t, k, step, hist>>

\* one call of joggerLoadFactor
CallLoadFactor ==
  /\ pc = "load"
  /\ res' = joggerLoadFactor(f)
  /\ pc' = "loaded"
  /\ UNCHANGED <<argv, index, flags, stdin, f, L, v, z, a, T, load, i, out,
                 t_max, t, k, step, hist, tq>>

\* one call of y
CallY ==
  /\ pc = "resp"
  /\ res' = y(tq, a, T)
  /\ pc' = "responded"
  /\ UNCHANGED <<argv, index, flags, stdin, f, L, v, z, a, T, load, i, out,
                 t_max, t, k, step, hist, tq>>

(* ---------------------------- the input sets ---------------------------- *)
MaxArgs == 3
AExp == 5
TExp == 7

\* "", "-", "-p", "-v", "-vp", "-pv", "v", "-x", "--v"
ArgChoices ==
  { <<>>, <<"-">>, <<"-", "p">>, <<"-", "v">>, <<"-", "v", "p">>,
    <<"-", "p", "v">>, <<"v">>, <<"-", "x">>, <<"-", "-", "v">> }
\* argv[0] is not an argument: a program called "-v" sets nothing
ProgNames == { <<"j">>, <<"-", "v">> }
ArgvInputs ==
  UNION { { <<p>> \o s : p \in ProgNames, s \in [1..n -> ArgChoices] }
          : n \in 0..MaxArgs }

\* m/4 * 2^j for m in 3..5: positive, finite
Grid(e) ==
  { IF j >= 0 THEN ((m * Q) \div 4) * 2^j ELSE (m * Q) \div 2^(2 - j) :
      m \in 3..5, j \in -e..e }
AInputs == Grid(AExp) \cup {Dec(9425, 10000)}
TInputs == Grid(TExp) \cup {Dec(9479, 1000)}

StdinInputs ==
  { [f |-> ff, L |-> FromInt(ll), v |-> vv, z |-> zz] :
      ff \in {Dec(25, 100), FromInt(2), Dec(28, 10)}, ll \in {10, 25},
      vv \in {Dec(25, 10), FromInt(5)}, zz \in {Dec(6, 1000), 1} }

(* --------------------------- the specifications ------------------------- *)
\* the program, from its command line to the peak it reports
Init ==
  /\ pc = "args"
  /\ argv \in { <<<<"j">>>>, <<<<"j">>, <<"-", "p">>>>, <<<<"j">>, <<"-", "v">>>>,
               <<<<"j">>, <<"-", "p">>, <<"-", "v">>>> }
  /\ stdin \in StdinInputs
  /\ Fresh
Next ==
  \/ ProcessArgStep
  \/ ReadInputs
  \/ PlotSample
  \/ PlotDone
  \/ NewtonEnter
  \/ NewtonIter
  \/ NewtonReturn
Spec == Init /\ [][Next]_vars

\* the command line and the prompts, over many command lines
InitArgs ==
  /\ pc = "args"
  /\ argv \in ArgvInputs
  /\ stdin \in { s \in StdinInputs : s.f = Dec(28, 10) /\ s.z # 1 }
  /\ Fresh
NextArgs == ProcessArgStep \/ ReadInputs
SpecArgs == InitArgs /\ [][NextArgs]_vars

\* newtonsMethod(a, T) over a grid of positive finite a and T
InitNewton ==
  /\ pc = "newton"
  /\ argv = <<<<"j">>>>
  /\ stdin = NoStdin
  /\ index = 1 /\ flags = NoFlags
  /\ f = Dec(28, 10) /\ L = FromInt(10) /\ v = FromInt(DefaultVelocity)
  /\ z = Dec(6, 1000) /\ load = 0
  /\ a \in AInputs /\ T \in TInputs
  /\ i = 0 /\ out = <<>>
  /\ t_max = 0 /\ t = 0 /\ k = 0 /\ step = NoStep /\ hist = <<>>
  /\ tq = 0 /\ res = 0
NextNewton == NewtonEnter \/ NewtonIter \/ NewtonReturn
SpecNewton == InitNewton /\ [][NextNewton]_vars
\* joggerLoadFactor(f) over every f of the format from 1.5 to 4, and beyond
FInputs ==
  (Dec(15, 10) .. FromInt(4))
    \cup {-MaxFinite, -FromInt(100), -One, -1, 0, 1, One, FromInt(100), MaxFinite}
InitLoad ==
  /\ pc = "load"
  /\ argv = <<<<"j">>>>
  /\ stdin = NoStdin
  /\ index = 1 /\ flags = NoFlags
  /\ f \in FInputs
  /\ L = FromInt(10) /\ v = FromInt(DefaultVelocity)
  /\ z = Dec(6, 1000) /\ load = 0
  /\ a = 0 /\ T = 0
  /\ i = 0 /\ out = <<>>
  /\ t_max = 0 /\ t = 0 /\ k = 0 /\ step = NoStep /\ hist = <<>>
  /\ tq = 0 /\ res = 0
NextLoad == CallLoadFactor
SpecLoad == InitLoad /\ [][NextLoad]_vars

\* y(t, a, T) at the start and later, over the grid of a and T
TimeInputs == {0, Dec(5, 10), FromInt(3)}
InitResp ==
  /\ pc = "resp"
  /\ argv = <<<<"j">>>>
  /\ stdin = NoStdin
  /\ index = 1 /\ flags = NoFlags
  /\ f = Dec(28, 10) /\ L = FromInt(10) /\ v = FromInt(DefaultVelocity)
  /\ z = Dec(6, 1000) /\ load = 0
  /\ a \in AInputs /\ T \in TInputs
  /\ i = 0 /\ out = <<>>
  /\ t_max = 0 /\ t = 0 /\ k = 0 /\ step = NoStep /\ hist = <<>>
  /\ tq \in TimeInputs /\ res = 0
NextResp == CallY
SpecResp == InitResp /\ [][NextResp]_vars
(* ------------------------------ the claims ------------------------------ *)
InNewton == pc \in {"loop", "done"}
Rising(x) == Gt(x, Dec(19, 10)) /\ Lt(x, Dec(22, 10))
Falling(x) == Gt(x, Dec(27, 10)) /\ Lt(x, Dec(35, 10))

\* C1: for a > 0 and T > 0, t lies in [0, t_max] at the start of the loop of
\* newtonsMethod, after every iteration and in the value returned, whatever
\* the raw step -B/A was.
C1_TInWindow ==
  InNewton =>
    /\ Ge(t, 0) /\ Le(t, t_max)
    /\ pc = "done" => Ge(tq, 0) /\ Le(tq, t_max)

\* C2: joggerLoadFactor(f) lies in [0, 1] for every f.
C2_FactorInUnitInterval ==
  pc = "loaded" => Ge(res, 0) /\ Le(res, One)

\* C2, its case: a frequency inside the falling ramp, factor strictly
\* between 0 and 1.
C2_OnFallingRamp ==
  pc = "loaded" /\ Falling(f) /\ res > 0 /\ res < One

\* C3: joggerLoadFactor is exactly 0 for f <= 1.9 and for f >= 3.5, and
\* exactly 1 for 2.2 <= f <= 2.7, the end points included.
C3_ExactZeroAndOne ==
  pc = "loaded" =>
    /\ Le(f, Dec(19, 10)) \/ Ge(f, Dec(35, 10)) => res = 0
    /\ Ge(f, Dec(22, 10)) /\ Le(f, Dec(27, 10)) => res = One

\* C3, its case: the upper end of the plateau, f = 2.7, gives 1.
C3_PlateauEnd ==
  pc = "loaded" /\ f = Dec(27, 10) /\ res = One

C5_ZeroAtStart ==
  pc = "responded" /\ tq = 0 => res = 0

\* C6: newtonsMethod runs its loop body exactly 6 times, with no early exit,
\* and returns the t of the 6th iteration.
C6_SixIterations ==
  /\ pc = "loop" => k <= 6 /\ Len(hist) = k
  /\ pc = "done" => k = 6 /\ Len(hist) = 6 /\ tq = hist[6]

\* C6, its case: dy was already 0 and t had stopped changing before the
\* last iterations, which ran all the same.
C6_RanOnAfterConverging ==
  /\ pc = "done" /\ Len(hist) = 6
  /\ IsFinite(tq)
  /\ hist[4] = hist[5] /\ hist[5] = hist[6]
  /\ step.dy = 0 /\ step.A # 0

\* C7: with r = -B/A the raw step: r > t_max gives t = t_max; r < 0 gives
\* t = 0.45 * t_max; 0 <= r <= t_max gives t = r; and with t_max > 0 the two
\* clamps never both act in one iteration.
C7_ClampCases ==
  pc = "loop" /\ k >= 1 =>
    /\ Gt(step.raw, t_max) => t = t_max /\ step.hi
    /\ Lt(step.raw, 0) => t = Mul(Dec(45, 100), t_max) /\ step.lo
    /\ Ge(step.raw, 0) /\ Le(step.raw, t_max) =>
         t = step.raw /\ ~step.hi /\ ~step.lo
    /\ Gt(t_max, 0) => ~(step.hi /\ step.lo)

\* C7, its case: a negative raw step re-seeded at 0.45*t_max, inside the
\* window and off the boundary 0.
C7_Reseeded ==
  /\ pc = "loop" /\ k >= 1
  /\ Lt(step.raw, 0)
  /\ step.lo /\ ~step.hi /\ t > 0 /\ t < t_max

\* the standard Newton step t - dy/ddy from the values of the last iteration
StandardStep == Sub(step.prev, Div(step.dy, step.A))

\* C8 as stated: for nonzero A, -B/A with B = dy - A*t is the same value as
\* t - dy/A.
C8_SameValue ==
  pc = "loop" /\ k >= 1 /\ ~IsNaN(step.A) /\ step.A # 0 =>
    step.raw = StandardStep

\* C8 amended: for finite nonzero A, when neither A*t, B nor the quotients
\* overflow, -B/A and t - dy/A differ by no more than the rounding of the
\* operations: one unit, plus half a unit divided by |A|.
C8_SameUpToRounding ==
  pc = "loop" /\ k >= 1 /\ IsFinite(step.A) /\ step.A # 0
    /\ IsFinite(step.B) /\ IsFinite(step.raw) /\ IsFinite(StandardStep) =>
      Abs(step.raw - StandardStep) <= 1 + Q \div (2 * Abs(step.A))

\* C8, its case: an iteration with finite values where the two forms differ.
C8_FormsDiffer ==
  /\ pc = "loop" /\ k >= 1
  /\ IsFinite(step.A) /\ step.A # 0 /\ IsFinite(step.B)
  /\ IsFinite(step.raw) /\ IsFinite(StandardStep)
  /\ step.raw # StandardStep

Plotted == pc \in {"newton", "loop", "done"}

\* C9 as stated: with the plot flag 100 samples are emitted, the first at
\* t = 0 and the last at t = 20; without it none.
C9_ZeroToTwenty ==
  Plotted =>
    IF flags.plot
      THEN Len(out) = 100 /\ out[1][1] = 0 /\ out[100][1] = FromInt(20)
      ELSE out = <<>>

\* C9 amended: with the plot flag 100 samples are emitted at t = n * 0.2 for
\* n = 0..99 (as a float), the first at 0 and the last at 19.8, whatever a
\* and T are, each with y(t, a, T) beside it; without the flag none.
C9_ZeroToNineteenPointEight ==
  /\ \A n \in 1..Len(out) :
       Abs(5 * out[n][1] - (n - 1) * Q) <= 5 * 2^(FloatDrop - 1) + 2
  /\ out # <<>> => /\ flags.plot
                   /\ out[1][1] = 0
                   /\ out[Len(out)][2] = y(out[Len(out)][1], a, T)
  /\ Plotted => Len(out) = (IF flags.plot THEN 100 ELSE 0)

\* C9, its case: the whole table emitted, its last line short of t = 20.
C9_TableEmitted ==
  /\ pc = "done" /\ flags.plot /\ Len(out) = 100
  /\ out[100][1] < FromInt(20) /\ out[100][1] > FromInt(19)
  /\ IsFinite(out[100][2]) /\ out[100][2] # 0

Exactly(opt) == \E j \in 2..index : argv[j] = opt

\* C10: the velocity in a = M_PI*v/L is 3 unless the override flag is set,
\* and then the value read; a flag is set exactly when some argument
\* processed so far is "-v" (resp. "-p"), other arguments change nothing,
\* and a flag once set stays set.
C10_FlagsAndVelocity ==
  /\ flags.overrideVelocity <=> Exactly(<<"-", "v">>)
  /\ flags.plot <=> Exactly(<<"-", "p">>)
  /\ pc = "plot" =>
       /\ v = (IF flags.overrideVelocity THEN stdin.v ELSE FromInt(3))
       /\ a = Div(Mul(M_PI, v), L)

\* C10, its case: "-pv", "v" or "-" given and ignored, then "-v" that sets
\* the override, and the velocity typed by the user in use.
C10_OverrideAmongOthers ==
  /\ pc = "plot" /\ Len(argv) = 4
  /\ argv[2] \in {<<"-", "p", "v">>, <<"v">>, <<"-">>}
  /\ argv[3] = <<"-", "v">>
  /\ argv[4] = <<"-", "x">>
  /\ flags.overrideVelocity /\ ~flags.plot
  /\ v = stdin.v /\ v # FromInt(3)
=============================================================================
